---- MODULE Spec2Model ----
(***************************************************************************)
(* Model of the Circle Pad Pro emulation (ExtraHID) of                     *)
(* src/core/hle/service/ir/extra_hid.cpp: the request dispatcher, the      *)
(* calibration read, and the self-rescheduling HID status broadcast driven *)
(* by the CoreTiming event queue.                                          *)
(***************************************************************************)
EXTENDS Integers, Sequences, FiniteSets, TLC

VARIABLES
    now,                      \* CoreTiming global timer (cycles)
    event_queue,              \* pending send_callback events: sequence of deadlines
    hid_period,               \* u8 hid_period, Unset until first written
    is_device_reload_pending, \* std::atomic<bool>
    handles,                  \* zl, zr, c_stick: identity of the device each points to
    calibration_data,         \* std::array<u8, 0x40>
    alive,                    \* FALSE once the destructor has run
    pc,                       \* position inside SendHIDStatus: "idle", "load", "sample"
    cycles_late,              \* argument of the running SendHIDStatus
    out,                      \* packets handed to send_func by the last step
    lastOp,                   \* the last operation, its input, events pending before it
    fault,                    \* the last step read outside calibration_data
    nominal,                  \* history: <<T + k*P>> for the k-th tick after arming at T
    unserved,                 \* history: ReloadInputDevices stores since the last exchange
    exchanged                 \* history: some tick has exchanged the flag

vars == <<now, event_queue, hid_period, is_device_reload_pending, handles,
          calibration_data, alive, pc, cycles_late, out, lastOp, fault, nominal,
          unserved, exchanged>>

----------------------------------------------------------------------------
(* Bounds of the model *)

\* number of time quanta the global timer may advance
MaxSteps == 4
\* number of ReloadInputDevices calls counted between two exchanges
MaxCalls == 2

----------------------------------------------------------------------------
(* Constants of the program *)

RequestID_ReadHIDStatus == 1
RequestID_ReadCalibrationData == 2
ResponseID_ReadHIDStatus == 16
ResponseID_ReadCalibrationData == 17
C_STICK_CENTER == 2048
C_STICK_RADIUS == 2047
BATTERY_FULL == 31

\* ARM11 clock rate used by CoreTiming's msToCycles
BASE_CLOCK_RATE_ARM11 == 268123480

\* hid_period before HandleReadHIDStatusRequest has written it
Unset == -1

\* the global timer advances in steps of this many cycles
Quantum == 150 * 1000

Byte == 0..255

----------------------------------------------------------------------------
(* Helpers *)

\* C++ data[i] on a std::vector (0-based)
At(data, i) == data[i + 1]

\* data.begin() + a .. data.begin() + b (half-open, 0-based)
Slice(data, a, b) == [k \in 1..(b - a) |-> data[a + k]]

\* std::memcpy(&v, data.data() + i, sizeof(u16)) on a little-endian host
ReadU16(data, i) == At(data, i) + 256 * At(data, i + 1)

U16LE(v) == <<v % 256, v \div 256>>

\* Common::AlignDown(value, size) on u16
AlignDown(value, size) == (value - (value % size)) % 65536

\* CoreTiming: milliseconds to cycles
msToCycles(ms) == (BASE_CLOCK_RATE_ARM11 \div 1000) * ms

\* CoreTiming::ScheduleEvent(cycles_into_future, send_callback) on queue q
ScheduleEvent(q, cycles_into_future) == Append(q, now + cycles_into_future)

\* CoreTiming::UnscheduleEvent(send_callback, 0) on queue q: removes every match
UnscheduleEvent(q) == SelectSeq(q, LAMBDA t : FALSE)

\* read of hid_period; an uninitialized u8 reads as any byte
ReadPeriod == IF hid_period = Unset THEN Byte ELSE {hid_period}

\* the factory calibration blob
CalibrationBlob ==
    << 0,   0,   8, 128, 133, 235,  17,  63,
     133, 235,  17,  63, 255, 255, 255, 245,
     255,   0,   8, 128, 133, 235,  17,  63,
     133, 235,  17,  63, 255, 255, 255, 101,
     255,   0,   8, 128, 133, 235,  17,  63,
     133, 235,  17,  63, 255, 255, 255, 101,
     255,   0,   8, 128, 133, 235,  17,  63,
     133, 235,  17,  63, 255, 255, 255, 101 >>

\* LoadInputDevices(): each handle is replaced by a newly created device
LoadInputDevices == [zl |-> 1 - handles.zl, zr |-> 1 - handles.zr,
                     c_stick |-> 1 - handles.c_stick]

Op(name, data) == [op |-> name, data |-> data, pending |-> Len(event_queue)]

----------------------------------------------------------------------------
(* Inputs *)

\* raw (offset, size) pairs of the calibration requests tried
Windows ==
    { <<0, 0>>, <<16, 16>>, <<0, 64>>, <<48, 16>>, <<64, 0>>, <<31, 47>>,
      <<15, 79>>, <<49, 31>>, <<65, 0>>, <<48, 32>>, <<65520, 16>>, <<0, 65535>> }

\* periods of the status requests tried
Periods == {0, 1, 2, 255}

CalibrationRequests ==
    {<<2, 0>> \o U16LE(w[1]) \o U16LE(w[2]) : w \in Windows}
        \cup {<<2, 255, 16, 0, 16, 0>>}

StatusRequests == {<<1, p, 0>> : p \in Periods} \cup {<<1, 1, 255>>}

MalformedRequests ==
    { <<1>>, <<1, 5>>, <<1, 5, 0, 0>>,
      <<2>>, <<2, 0, 16, 0, 16>>, <<2, 0, 16, 0, 16, 0, 0>> }

UnknownRequests ==
    { <<0>>, <<3>>, <<4, 1, 0>>, <<5, 0, 16, 0, 16, 0>>, <<16, 5, 0>>, <<255, 0, 0>> }

Requests ==
    CalibrationRequests \cup StatusRequests \cup MalformedRequests
        \cup UnknownRequests \cup {<< >>}

\* what data[0] may read when the vector is empty
GarbageBytes == {0, 1, 2, 255}

\* c_stick->GetStatus(): axis values as fractions num/den (den a power of two)
Axis(n, d) == [num |-> n, den |-> d]
AxisSamples ==
    { <<Axis(0, 1), Axis(0, 1)>>, <<Axis(1, 1), Axis(-1, 1)>>,
      <<Axis(1, 2), Axis(-1, 4)>> }

\* history of one tick's samples: x, y as num, den and 1 for a pressed button
Sampled(x, y, zl_pressed, zr_pressed) ==
    <<x.num, x.den, y.num, y.den,
      IF zl_pressed THEN 1 ELSE 0, IF zr_pressed THEN 1 ELSE 0>>

----------------------------------------------------------------------------
(* Packet codec *)

\* mutant: the value is rounded to the nearest integer instead of truncated
StickField_Round(a) ==
    ((2 * (C_STICK_CENTER * a.den + C_STICK_RADIUS * a.num) + a.den) \div (2 * a.den)) % 4096

\* static_cast<u32>(C_STICK_CENTER + C_STICK_RADIUS * a), then BitField<_, 12> Assign
StickField(a) == ((C_STICK_CENTER * a.den + C_STICK_RADIUS * a.num) \div a.den) % 4096

\* mutant: the button bits are set when the button is pressed
ButtonsByte_Pressed(zl_pressed, zr_pressed) ==
    BATTERY_FULL + (IF zl_pressed THEN 32 ELSE 0) + (IF zr_pressed THEN 64 ELSE 0) + 128

\* the buttons byte: battery | zl << 5 | zr << 6 | r << 7 (bit set when NOT pressed)
ButtonsByte(zl_pressed, zr_pressed) ==
    BATTERY_FULL + (IF zl_pressed THEN 0 ELSE 32) + (IF zr_pressed THEN 0 ELSE 64) + 128

\* the 6-byte response struct copied into response_buffer
HIDStatusResponse(x, y, zl_pressed, zr_pressed) ==
    LET cx == StickField(x)
        cy == StickField(y)
    IN  << ResponseID_ReadHIDStatus,
           cx % 256,
           (cx \div 256) + 16 * (cy % 16),
           cy \div 16,
           ButtonsByte(zl_pressed, zr_pressed),
           0 >>

\* calibration_data.begin() + offset .. + offset + size; a byte past the end of
\* the array reads as garbage g
CalibrationWindow(offset, size, g) ==
    [k \in 1..size |->
        IF offset + k <= Len(calibration_data) THEN calibration_data[offset + k] ELSE g]

\* mutant: the echoed bytes are taken one byte early (request bytes 1..4)
CalibrationResponse_OffByOne(data, window) ==
    <<ResponseID_ReadCalibrationData>> \o Slice(data, 1, 5) \o window

\* the calibration response: id, request bytes 2..5, calibration window
CalibrationResponse(data, window) ==
    <<ResponseID_ReadCalibrationData>> \o Slice(data, 2, 6) \o window

----------------------------------------------------------------------------
(* Construction *)

\* mutant: the constructor schedules the first tick
Init_Scheduled ==
    /\ now = 0
    /\ event_queue = <<0>>
    /\ hid_period = Unset
    /\ is_device_reload_pending \in BOOLEAN
    /\ handles = [zl |-> 0, zr |-> 0, c_stick |-> 0]
    /\ calibration_data = CalibrationBlob
    /\ alive = TRUE
    /\ pc = "idle"
    /\ cycles_late = 0
    /\ out = << >>
    /\ lastOp = [op |-> "ExtraHID", data |-> << >>, pending |-> 0]
    /\ fault = FALSE
    /\ nominal = << >>
    /\ unserved = 0
    /\ exchanged = FALSE

\* ExtraHID::ExtraHID: loads the input devices, fills the calibration data and
\* registers the event; hid_period and is_device_reload_pending are not written
Init ==
    /\ now = 0
    /\ event_queue = << >>
    /\ hid_period = Unset
    /\ is_device_reload_pending \in BOOLEAN
    /\ handles = [zl |-> 0, zr |-> 0, c_stick |-> 0]
    /\ calibration_data = CalibrationBlob
    /\ alive = TRUE
    /\ pc = "idle"
    /\ cycles_late = 0
    /\ out = << >>
    /\ lastOp = [op |-> "ExtraHID", data |-> << >>, pending |-> 0]
    /\ fault = FALSE
    /\ nominal = << >>
    /\ unserved = 0
    /\ exchanged = FALSE

----------------------------------------------------------------------------
(* Request handling *)

\* mutant: only requests that are too short are rejected
StatusRequestSizeWrong_Short(data) == Len(data) < 3

\* line 66: data.size() != 3
StatusRequestSizeWrong(data) == Len(data) # 3

\* mutant: the next tick is scheduled before hid_period is updated
HandleReadHIDStatusRequest_StalePeriod(data) ==
    /\ IF StatusRequestSizeWrong(data)
       THEN UNCHANGED <<event_queue, hid_period, nominal>>
       ELSE /\ hid_period' = At(data, 1)
            /\ event_queue' =
                   ScheduleEvent(UnscheduleEvent(event_queue),
                                 msToCycles(IF hid_period = Unset THEN 0 ELSE hid_period))
            /\ nominal' = <<now + msToCycles(At(data, 1))>>
    /\ out' = << >>
    /\ fault' = FALSE

\* mutant: the pending tick is not unscheduled before the new one is scheduled
HandleReadHIDStatusRequest_NoCancel(data) ==
    /\ IF StatusRequestSizeWrong(data)
       THEN UNCHANGED <<event_queue, hid_period, nominal>>
       ELSE /\ hid_period' = At(data, 1)
            /\ event_queue' = ScheduleEvent(event_queue, msToCycles(hid_period'))
            /\ nominal' = <<now + msToCycles(At(data, 1))>>
    /\ out' = << >>
    /\ fault' = FALSE

\* mutant: the first status response is sent at once by the request handler
HandleReadHIDStatusRequest_SendNow(data) ==
    /\ IF StatusRequestSizeWrong(data)
       THEN UNCHANGED <<event_queue, hid_period, nominal>> /\ out' = << >>
       ELSE /\ hid_period' = At(data, 1)
            /\ event_queue' =
                   ScheduleEvent(UnscheduleEvent(event_queue), msToCycles(hid_period'))
            /\ nominal' = <<now + msToCycles(At(data, 1))>>
            /\ out' = << HIDStatusResponse(Axis(0, 1), Axis(0, 1), FALSE, FALSE) >>
    /\ fault' = FALSE

\* ExtraHID::HandleReadHIDStatusRequest
HandleReadHIDStatusRequest(data) ==
    /\ IF StatusRequestSizeWrong(data)
       THEN UNCHANGED <<event_queue, hid_period, nominal>>
       ELSE /\ hid_period' = At(data, 1)
            /\ event_queue' =
                   ScheduleEvent(UnscheduleEvent(event_queue), msToCycles(hid_period'))
            /\ nominal' = <<now + msToCycles(At(data, 1))>>
    /\ out' = << >>
    /\ fault' = FALSE

\* line 78: data.size() != 6
CalibrationRequestSizeWrong(data) == Len(data) # 6

\* mutant: the sum is taken in u16 and wraps
WindowBeyondEnd_u16(offset, size) == (offset + size) % 65536 > Len(calibration_data)

\* line 92: offset + size > calibration_data.size(), the sum taken in int
WindowBeyondEnd(offset, size) == offset + size > Len(calibration_data)

\* ExtraHID::HandleReadCalibrationDataRequest
HandleReadCalibrationDataRequest(data) ==
    /\ IF CalibrationRequestSizeWrong(data)
       THEN out' = << >> /\ fault' = FALSE
       ELSE LET offset == AlignDown(ReadU16(data, 2), 16)
                size == AlignDown(ReadU16(data, 4), 16)
            IN  IF WindowBeyondEnd(offset, size)
                THEN out' = << >> /\ fault' = FALSE
                ELSE /\ fault' = (offset + size > Len(calibration_data))
                     /\ \E g \in (IF fault' THEN GarbageBytes ELSE {0}) :
                            out' = << CalibrationResponse(
                                          data, CalibrationWindow(offset, size, g)) >>
    /\ UNCHANGED <<event_queue, hid_period, nominal>>

\* the default branch of Receive's switch: log only
UnknownRequest(data) ==
    /\ out' = << >>
    /\ fault' = FALSE
    /\ UNCHANGED <<event_queue, hid_period, nominal>>

\* the byte Receive switches on: data[0], read past the end of an empty vector
RequestByte(data) == IF Len(data) > 0 THEN {At(data, 0)} ELSE GarbageBytes

\* mutant: the default branch falls into the status handler
Dispatch_Fallthrough(id, data) ==
    CASE id = RequestID_ReadCalibrationData -> HandleReadCalibrationDataRequest(data)
      [] OTHER -> HandleReadHIDStatusRequest(data)

\* Receive's switch on the request id
Dispatch(id, data) ==
    CASE id = RequestID_ReadHIDStatus -> HandleReadHIDStatusRequest(data)
      [] id = RequestID_ReadCalibrationData -> HandleReadCalibrationDataRequest(data)
      [] OTHER -> UnknownRequest(data)

\* the 0-based indices of data that Receive (data[0]) and the handler it calls
\* (data[1]; data + 2 .. data + 6) read when the switch takes request id
IndicesRead(id, data) ==
    {0} \cup (IF id = RequestID_ReadHIDStatus /\ ~StatusRequestSizeWrong(data)
              THEN {1} ELSE {})
        \cup (IF id = RequestID_ReadCalibrationData /\ ~CalibrationRequestSizeWrong(data)
              THEN 2..5 ELSE {})

\* mutant: request 3 writes the calibration data
Receive_Writable(data) ==
    /\ alive
    /\ pc = "idle"
    /\ \E id \in RequestByte(data) : Dispatch(id, data)
    /\ lastOp' = Op("Receive", data)
    /\ calibration_data' = IF data = <<3>>
                           THEN [calibration_data EXCEPT ![1] = 255]
                           ELSE calibration_data
    /\ UNCHANGED <<now, is_device_reload_pending, handles, alive, pc,
                   cycles_late, unserved, exchanged>>

\* ExtraHID::Receive
Receive(data) ==
    /\ alive
    /\ pc = "idle"
    /\ \E id \in RequestByte(data) : Dispatch(id, data)
    /\ lastOp' = Op("Receive", data)
    /\ UNCHANGED <<now, is_device_reload_pending, handles, calibration_data, alive, pc,
                   cycles_late, unserved, exchanged>>

----------------------------------------------------------------------------
(* Lifecycle *)

\* mutant: Connect re-arms the broadcast with the last period
Connect_Rearm ==
    /\ alive
    /\ pc = "idle"
    /\ event_queue' = IF hid_period = Unset
                      THEN event_queue
                      ELSE ScheduleEvent(UnscheduleEvent(event_queue), msToCycles(hid_period))
    /\ out' = << >>
    /\ fault' = FALSE
    /\ lastOp' = Op("Connect", << >>)
    /\ UNCHANGED <<now, hid_period, is_device_reload_pending, handles,
                   calibration_data, alive, pc, cycles_late, nominal, unserved,
                   exchanged>>

\* ExtraHID::Connect
Connect ==
    /\ alive
    /\ pc = "idle"
    /\ out' = << >>
    /\ fault' = FALSE
    /\ lastOp' = Op("Connect", << >>)
    /\ UNCHANGED <<now, event_queue, hid_period, is_device_reload_pending, handles,
                   calibration_data, alive, pc, cycles_late, nominal, unserved,
                   exchanged>>

\* mutant: Disconnect does nothing, like Connect
DisconnectBody_None ==
    /\ UNCHANGED event_queue
    /\ fault' = FALSE

\* mutant: cancelling faults when no tick is pending
DisconnectBody_Strict ==
    /\ event_queue' = UnscheduleEvent(event_queue)
    /\ fault' = (event_queue = << >>)

\* the body of ExtraHID::Disconnect
DisconnectBody ==
    /\ event_queue' = UnscheduleEvent(event_queue)
    /\ fault' = FALSE

\* ExtraHID::Disconnect
Disconnect ==
    /\ alive
    /\ pc = "idle"
    /\ DisconnectBody
    /\ out' = << >>
    /\ nominal' = << >>
    /\ lastOp' = Op("Disconnect", << >>)
    /\ UNCHANGED <<now, hid_period, is_device_reload_pending, handles,
                   calibration_data, alive, pc, cycles_late, unserved,
                   exchanged>>

\* ExtraHID::~ExtraHID
Destructor ==
    /\ alive
    /\ pc = "idle"
    /\ DisconnectBody
    /\ alive' = FALSE
    /\ out' = << >>
    /\ nominal' = << >>
    /\ lastOp' = Op("~ExtraHID", << >>)
    /\ UNCHANGED <<now, hid_period, is_device_reload_pending, handles,
                   calibration_data, pc, cycles_late, unserved, exchanged>>

\* mutant: ReloadInputDevices replaces the handles itself
ReloadInputDevices_Eager ==
    /\ alive
    /\ unserved < MaxCalls
    /\ handles' = LoadInputDevices
    /\ unserved' = unserved + 1
    /\ out' = << >>
    /\ fault' = FALSE
    /\ lastOp' = Op("ReloadInputDevices", << >>)
    /\ UNCHANGED <<now, event_queue, hid_period, is_device_reload_pending,
                   calibration_data, alive, pc, cycles_late, nominal, exchanged>>

\* ExtraHID::ReloadInputDevices, callable from another thread at any point
ReloadInputDevices ==
    /\ alive
    /\ unserved < MaxCalls
    /\ is_device_reload_pending' = TRUE
    /\ unserved' = unserved + 1
    /\ out' = << >>
    /\ fault' = FALSE
    /\ lastOp' = Op("ReloadInputDevices", << >>)
    /\ UNCHANGED <<now, event_queue, hid_period, handles, calibration_data, alive, pc,
                   cycles_late, nominal, exchanged>>

----------------------------------------------------------------------------
(* The broadcast tick *)

\* index of the event CoreTiming fires next: the earliest deadline, oldest first
Earliest(q) ==
    CHOOSE i \in 1..Len(q) :
        \A j \in 1..Len(q) : q[i] < q[j] \/ (q[i] = q[j] /\ i <= j)

RemoveAt(q, i) == [k \in 1..(Len(q) - 1) |-> IF k < i THEN q[k] ELSE q[k + 1]]

\* is_device_reload_pending.exchange(false): the value returned
ExchangeFlag == is_device_reload_pending

\* CoreTiming fires the due event and SendHIDStatus(cycles_late) starts:
\* lines 123-124, the atomic exchange of the reload flag
SendHIDStatus_Exchange ==
    /\ pc = "idle"
    /\ Len(event_queue) > 0
    /\ LET e == Earliest(event_queue)
       IN  /\ event_queue[e] <= now
           /\ cycles_late' = now - event_queue[e]
           /\ event_queue' = RemoveAt(event_queue, e)
    /\ pc' = IF ExchangeFlag THEN "load" ELSE "sample"
    /\ is_device_reload_pending' = FALSE
    /\ unserved' = 0
    /\ exchanged' = TRUE
    /\ out' = << >>
    /\ fault' = FALSE
    /\ lastOp' = Op("SendHIDStatus_Exchange", << >>)
    /\ UNCHANGED <<now, hid_period, handles, calibration_data, alive, nominal>>

\* mutant: the flag is tested at the start and cleared only after the reload
SendHIDStatus_Load_ClearAfter ==
    /\ pc = "load"
    /\ handles' = LoadInputDevices
    /\ is_device_reload_pending' = FALSE
    /\ pc' = "sample"
    /\ out' = << >>
    /\ fault' = FALSE
    /\ lastOp' = Op("SendHIDStatus_Load", << >>)
    /\ UNCHANGED <<now, event_queue, hid_period, calibration_data, alive, cycles_late,
                   nominal, unserved, exchanged>>

\* line 125: LoadInputDevices() when the exchange returned true
SendHIDStatus_Load ==
    /\ pc = "load"
    /\ handles' = LoadInputDevices
    /\ pc' = "sample"
    /\ out' = << >>
    /\ fault' = FALSE
    /\ lastOp' = Op("SendHIDStatus_Load", << >>)
    /\ UNCHANGED <<now, event_queue, hid_period, is_device_reload_pending,
                   calibration_data, alive, cycles_late, nominal, unserved, exchanged>>

\* mutant: the lateness is not subtracted
NextDelay_NoDrift(period, late) == msToCycles(period)

\* the delay SendHIDStatus passes to ScheduleEvent
NextDelay(period, late) == msToCycles(period) - late

\* mutant: the tick sends but does not schedule its successor
SendHIDStatus_Send_NoReschedule ==
    /\ pc = "sample"
    /\ \E xy \in AxisSamples, zl_pressed \in BOOLEAN, zr_pressed \in BOOLEAN :
           /\ out' = << HIDStatusResponse(xy[1], xy[2], zl_pressed, zr_pressed) >>
           /\ lastOp' = Op("SendHIDStatus_Send", Sampled(xy[1], xy[2], zl_pressed, zr_pressed))
    /\ fault' = FALSE
    /\ pc' = "idle"
    /\ cycles_late' = 0
    /\ UNCHANGED <<now, event_queue, hid_period, is_device_reload_pending, handles,
                   calibration_data, alive, nominal, unserved, exchanged>>

\* lines 127-164: sample the inputs, send the status response, schedule the next tick
SendHIDStatus_Send ==
    /\ pc = "sample"
    /\ \E xy \in AxisSamples, zl_pressed \in BOOLEAN, zr_pressed \in BOOLEAN :
           /\ out' = << HIDStatusResponse(xy[1], xy[2], zl_pressed, zr_pressed) >>
           /\ lastOp' = Op("SendHIDStatus_Send", Sampled(xy[1], xy[2], zl_pressed, zr_pressed))
    /\ \E period \in ReadPeriod :
           event_queue' = ScheduleEvent(event_queue, NextDelay(period, cycles_late))
    /\ fault' = FALSE
    /\ pc' = "idle"
    /\ cycles_late' = 0
    /\ nominal' = IF nominal = << >> \/ hid_period = Unset
                  THEN << >>
                  ELSE <<nominal[1] + msToCycles(hid_period)>>
    /\ UNCHANGED <<now, hid_period, is_device_reload_pending, handles,
                   calibration_data, alive, unserved, exchanged>>

\* virtual time passes between events
AdvanceTime ==
    /\ pc = "idle"
    /\ now + Quantum <= MaxSteps * Quantum
    /\ now' = now + Quantum
    /\ out' = << >>
    /\ fault' = FALSE
    /\ lastOp' = Op("AdvanceTime", << >>)
    /\ UNCHANGED <<event_queue, hid_period, is_device_reload_pending, handles,
                   calibration_data, alive, pc, cycles_late, nominal, unserved,
                   exchanged>>

----------------------------------------------------------------------------
Next ==
    \/ \E data \in Requests : Receive(data)
    \/ Connect
    \/ Disconnect
    \/ Destructor
    \/ ReloadInputDevices
    \/ SendHIDStatus_Exchange
    \/ SendHIDStatus_Load
    \/ SendHIDStatus_Send
    \/ AdvanceTime

Spec == Init /\ [][Next]_vars

----------------------------------------------------------------------------
(* The same device under a scheduling service that keeps running: time is kept
   relative to the present, so that it can pass without bound. *)

\* the step by which time passes: one millisecond of cycles
LiveStep == msToCycles(1)

\* the requests tried
LiveRequests == { <<1, 0, 0>>, <<1, 1, 0>>, <<1, 2, 0>>, <<1, 5>>, <<2, 0, 16, 0, 16, 0>> }

ShiftBack(q) == [i \in 1..Len(q) |-> q[i] - LiveStep]

\* LiveStep cycles pass: every deadline comes LiveStep closer to the present; the
\* scheduling service lets no due event wait for more than one step
AdvanceTimeLive ==
    /\ pc = "idle"
    /\ \A i \in 1..Len(event_queue) : event_queue[i] > now - LiveStep
    /\ event_queue' = ShiftBack(event_queue)
    /\ nominal' = ShiftBack(nominal)
    /\ out' = << >>
    /\ fault' = FALSE
    /\ lastOp' = Op("AdvanceTime", << >>)
    /\ UNCHANGED <<now, hid_period, is_device_reload_pending, handles,
                   calibration_data, alive, pc, cycles_late, unserved, exchanged>>

NextLive ==
    \/ \E data \in LiveRequests : Receive(data)
    \/ Disconnect
    \/ ReloadInputDevices
    \/ SendHIDStatus_Exchange
    \/ SendHIDStatus_Load
    \/ SendHIDStatus_Send
    \/ AdvanceTimeLive

\* the scheduling service fires every due event, the callback runs to completion,
\* and time keeps passing while the emulation runs
LiveSpec ==
    /\ Init
    /\ [][NextLive]_vars
    /\ WF_vars(SendHIDStatus_Exchange)
    /\ WF_vars(SendHIDStatus_Load)
    /\ WF_vars(SendHIDStatus_Send)
    /\ WF_vars(AdvanceTimeLive)

----------------------------------------------------------------------------
(* Vocabulary of the properties *)

Floor16(v) == 16 * (v \div 16)
RawOffset(d) == d[3] + 256 * d[4]
RawSize(d) == d[5] + 256 * d[6]

\* a well-formed status-configuration request
IsStatusRequest(d) == Len(d) = 3 /\ d[1] = RequestID_ReadHIDStatus

\* a well-formed calibration read whose aligned window lies inside the blob
IsCalibrationRead(d) ==
    /\ Len(d) = 6
    /\ d[1] = RequestID_ReadCalibrationData
    /\ Floor16(RawOffset(d)) + Floor16(RawSize(d)) <= 64

\* a calibration request of the wrong length, or whose aligned window leaves the blob
IsRejectedCalibration(d) ==
    /\ Len(d) > 0
    /\ d[1] = RequestID_ReadCalibrationData
    /\ \/ Len(d) # 6
       \/ Floor16(RawOffset(d)) + Floor16(RawSize(d)) > 64

\* a status request of the wrong length
IsMalformedStatus(d) == Len(d) > 0 /\ d[1] = RequestID_ReadHIDStatus /\ Len(d) # 3

\* a request with an opcode other than 0x01 and 0x02
IsUnknownRequest(d) ==
    Len(d) > 0 /\ d[1] # RequestID_ReadHIDStatus /\ d[1] # RequestID_ReadCalibrationData

\* some packet of o is a status response
HasStatusPacket(o) == \E i \in 1..Len(o) : o[i][1] = ResponseID_ReadHIDStatus

----------------------------------------------------------------------------
(* Properties *)

\* C1: after Receive of a 3-byte request <<0x01, p, _>>, in any state, hid_period is p
\* and exactly one tick is pending, due msToCycles(p) after the time of the request
\* (no lateness subtracted, the old phase not kept); nothing is sent.
C1_StatusRequestRearms ==
    (lastOp.op = "Receive" /\ IsStatusRequest(lastOp.data)) =>
        /\ hid_period = lastOp.data[2]
        /\ event_queue = <<now + msToCycles(lastOp.data[2])>>

\* C1 witness: a request with period 2 processed at time Quantum while a tick of
\* another schedule was pending
C1_Witness ==
    /\ lastOp.op = "Receive"
    /\ lastOp.data = <<1, 2, 0>>
    /\ lastOp.pending = 1
    /\ now = Quantum
    /\ exchanged
    /\ event_queue = <<Quantum + msToCycles(2)>>

\* C2: in every reachable state at most one broadcast tick is pending.
C2_AtMostOnePending == Len(event_queue) <= 1

\* C2 witness: a tick, fired with nothing else pending, has rescheduled itself
C2_Witness ==
    /\ lastOp.op = "SendHIDStatus_Send"
    /\ lastOp.pending = 0
    /\ Len(event_queue) = 1
    /\ now = 2 * Quantum

\* C3: a 6-byte request <<0x02, _, o, s>> with floor16(o) + floor16(s) <= 64 sends
\* exactly one packet: 0x11, request bytes 2..5 as received, then
\* blob[floor16(o) .. floor16(o) + floor16(s)), of length 5 + floor16(s).
C3_CalibrationRead ==
    (lastOp.op = "Receive" /\ IsCalibrationRead(lastOp.data)) =>
        LET d == lastOp.data
            o == Floor16(RawOffset(d))
            n == Floor16(RawSize(d))
        IN  /\ Len(out) = 1
            /\ Len(out[1]) = 5 + n
            /\ out[1] = <<17, d[3], d[4], d[5], d[6]>> \o SubSeq(CalibrationBlob, o + 1, o + n)

\* C3 witness: the unaligned request (offset 31, size 47) answered with the raw
\* bytes echoed and the 32 bytes from offset 16
C3_Witness ==
    /\ lastOp.op = "Receive"
    /\ lastOp.data = <<2, 0, 31, 0, 47, 0>>
    /\ Len(out) = 1
    /\ Len(out[1]) = 37
    /\ SubSeq(out[1], 1, 6) = <<17, 31, 0, 47, 0, 255>>

\* C4: a request with first byte 0x02 that is not 6 bytes long, or whose aligned
\* window ends beyond byte 64 (sum taken without 16-bit wrap), sends nothing and
\* leaves hid_period, the pending tick, the reload flag and the blob unchanged.
C4_CalibrationRejected ==
    [][ (lastOp'.op = "Receive" /\ IsRejectedCalibration(lastOp'.data)) =>
            /\ out' = << >>
            /\ UNCHANGED <<hid_period, event_queue, is_device_reload_pending,
                           calibration_data>> ]_vars

\* C4 witness: offset 0xFFF0, size 0x10 (a sum that wraps to 0 in 16 bits) dropped
\* while a tick is pending
C4_Witness ==
    /\ lastOp.op = "Receive"
    /\ lastOp.data = <<2, 0, 240, 255, 16, 0>>
    /\ lastOp.pending = 1
    /\ Len(event_queue) = 1
    /\ out = << >>

\* C5: a request with first byte 0x01 whose length is not 3 sends nothing and leaves
\* hid_period and the pending tick (with its deadline) unchanged.
C5_MalformedStatusDropped ==
    [][ (lastOp'.op = "Receive" /\ IsMalformedStatus(lastOp'.data)) =>
            /\ out' = << >>
            /\ UNCHANGED <<hid_period, event_queue>> ]_vars

\* C5 witness: a 4-byte status request dropped while a tick with period 1 is pending
C5_Witness ==
    /\ lastOp.op = "Receive"
    /\ lastOp.data = <<1, 5, 0, 0>>
    /\ lastOp.pending = 1
    /\ hid_period = 1
    /\ Len(event_queue) = 1
    /\ out = << >>

\* C6: a request whose first byte is neither 0x01 nor 0x02 sends nothing and changes
\* no state, whatever its length.
C6_UnknownDropped ==
    [][ (lastOp'.op = "Receive" /\ IsUnknownRequest(lastOp'.data)) =>
            /\ out' = << >>
            /\ UNCHANGED <<hid_period, event_queue, is_device_reload_pending,
                           calibration_data, handles>> ]_vars

\* C6 witness: the 3-byte request with reserved opcode 4 dropped while a tick is pending
C6_Witness ==
    /\ lastOp.op = "Receive"
    /\ lastOp.data = <<4, 1, 0>>
    /\ lastOp.pending = 1
    /\ hid_period = 2
    /\ Len(event_queue) = 1
    /\ out = << >>

\* C7: a tick firing cycles_late late schedules the next tick msToCycles(hid_period)
\* - cycles_late after its firing time, so the k-th deadline after arming at T is
\* T + k * msToCycles(hid_period) whatever the latenesses were.
C7_DriftCorrection ==
    [][ (pc = "sample" /\ pc' = "idle") =>
            /\ event_queue' = <<now + (msToCycles(hid_period) - cycles_late)>>
            /\ event_queue' = nominal' ]_vars

\* C7 witness: armed at 0 with period 1 ms, two late ticks have fired and the third
\* deadline is 3 periods after 0
C7_Witness ==
    /\ lastOp.op = "SendHIDStatus_Send"
    /\ hid_period = 1
    /\ now = 4 * Quantum
    /\ event_queue = <<3 * msToCycles(1)>>

\* C8: after Disconnect or destruction no tick is pending, and while the device is
\* not armed no step sends a status response, but a calibration read is answered.
C8_DisconnectStops ==
    [][ /\ (lastOp'.op \in {"Disconnect", "~ExtraHID"} => event_queue' = << >>)
        /\ (nominal = << >> => ~HasStatusPacket(out'))
        /\ (nominal' = << >> /\ lastOp'.op = "Receive"
                /\ IsCalibrationRead(lastOp'.data)
              => Len(out') = 1 /\ out'[1][1] = ResponseID_ReadCalibrationData) ]_vars

\* C8 witness: Disconnect has cancelled a pending tick after a tick had fired
C8_Witness ==
    /\ lastOp.op = "Disconnect"
    /\ lastOp.pending = 1
    /\ exchanged
    /\ event_queue = << >>

\* C9: Disconnect with nothing pending, or right after a Disconnect, faults nowhere
\* and changes nothing: no tick pending, hid_period and the reload flag unchanged.
C9_DisconnectIdempotent ==
    [][ (lastOp'.op = "Disconnect" /\ (lastOp.op = "Disconnect" \/ event_queue = << >>)) =>
            /\ event_queue' = << >>
            /\ ~fault'
            /\ out' = << >>
            /\ UNCHANGED <<event_queue, hid_period, is_device_reload_pending, handles,
                           calibration_data, alive, pc, now>> ]_vars

\* C9 witness: Disconnect called with nothing pending on a device that had been armed
C9_Witness ==
    /\ lastOp.op = "Disconnect"
    /\ lastOp.pending = 0
    /\ hid_period = 1
    /\ event_queue = << >>
    /\ ~fault

\* C10: a ReloadInputDevices store stays in the flag until the next exchange, whose
\* tick then reloads exactly once; an exchange that finds the flag clear reloads
\* nothing; the handles are replaced only by that reload step.
C10_ReloadServedOnce ==
    [][ /\ (unserved' > 0 => is_device_reload_pending')
        /\ (exchanged' /\ unserved' = 0 => ~is_device_reload_pending')
        /\ (lastOp'.op = "SendHIDStatus_Exchange" =>
                /\ (pc' = "load") = is_device_reload_pending
                /\ (pc' = "sample") = ~is_device_reload_pending
                /\ (unserved > 0 => pc' = "load"))
        /\ (handles' # handles => pc = "load" /\ pc' = "sample")
        /\ (pc = "load" /\ pc' # "load" => handles' # handles /\ pc' = "sample")
        /\ (pc = "sample" => handles' = handles) ]_vars

\* C10 witness: ReloadInputDevices stored the flag between a tick's exchange and its
\* reload, and the request is still recorded
C10_Witness ==
    /\ pc = "load"
    /\ lastOp.op = "ReloadInputDevices"
    /\ unserved = 1
    /\ is_device_reload_pending

----------------------------------------------------------------------------
(* Vocabulary of the status packet *)

\* bits 8..31 of the little-endian 32-bit word formed by bytes 0-3 of packet b
\* (bits 0..7 are byte 0)
WordBits8To31(b) == b[2] + 256 * b[3] + 65536 * b[4]
\* bits 8..19 and bits 20..31 of that word
FieldX(b) == WordBits8To31(b) % 4096
FieldY(b) == (WordBits8To31(b) \div 4096) % 4096
Bit(v, n) == (v \div (2 ^ n)) % 2

\* 0x800 + 0x7FF * n/d with the fraction discarded, and rounded half up
\* (the value is positive for every axis in [-1, 1])
Truncated(n, d) == (2048 * d + 2047 * n) \div d
Rounded(n, d) == (2 * (2048 * d + 2047 * n) + d) \div (2 * d)

\* the last step was the sending step of a tick
TickSent == lastOp.op = "SendHIDStatus_Send"

----------------------------------------------------------------------------
\* C11: the packet a tick sends is 6 bytes: 0x10; X in bits 8..19 and Y in bits
\* 20..31 of the word of bytes 0-3; byte 4 = 0x1F | (ZL not pressed) << 5 |
\* (ZR not pressed) << 6 | 0x80; byte 5 = 0; the values are this tick's samples.
C11_StatusPacketLayout ==
    TickSent =>
        LET b == out[1]
            d == lastOp.data
        IN  /\ Len(out) = 1
            /\ Len(b) = 6
            /\ b[1] = 16
            /\ FieldX(b) = StickField(Axis(d[1], d[2]))
            /\ FieldY(b) = StickField(Axis(d[3], d[4]))
            /\ b[5] % 32 = 31
            /\ Bit(b[5], 5) = 1 - d[5]
            /\ Bit(b[5], 6) = 1 - d[6]
            /\ Bit(b[5], 7) = 1
            /\ b[6] = 0

\* C11 witness: axes (1/2, -1/4), ZL pressed, ZR released give
\* 10 FF 0B 60 DF 00 (X = 0xBFF, Y = 0x600)
C11_Witness ==
    /\ TickSent
    /\ lastOp.data = <<1, 2, -1, 4, 1, 0>>
    /\ out = << <<16, 255, 11, 96, 223, 0>> >>

\* C12 as claimed: each 12-bit field is round(0x800 + 0x7FF * a) for the sampled a.
C12_FieldIsRounded ==
    TickSent =>
        /\ FieldX(out[1]) = Rounded(lastOp.data[1], lastOp.data[2]) % 4096
        /\ FieldY(out[1]) = Rounded(lastOp.data[3], lastOp.data[4]) % 4096

\* C12 amended: each 12-bit field is 0x800 + 0x7FF * a with the fraction discarded
\* (not rounded), kept to 12 bits; axes (0, 0) give 0x800, 0x800 and axes (1, -1)
\* give 0xFFF, 0x001.
C12_FieldIsTruncated ==
    TickSent =>
        LET d == lastOp.data
        IN  /\ FieldX(out[1]) = Truncated(d[1], d[2]) % 4096
            /\ FieldY(out[1]) = Truncated(d[3], d[4]) % 4096
            /\ (d[1] = 0 /\ d[3] = 0 => FieldX(out[1]) = 2048 /\ FieldY(out[1]) = 2048)
            /\ (d[1] = d[2] /\ d[3] = -d[4] => FieldX(out[1]) = 4095 /\ FieldY(out[1]) = 1)

\* C12 witness: axis 1/2 gives 0x800 + 1023.5, emitted as 3071 where rounding gives 3072
C12_Witness ==
    /\ TickSent
    /\ lastOp.data[1] = 1
    /\ lastOp.data[2] = 2
    /\ FieldX(out[1]) = 3071
    /\ Rounded(1, 2) = 3072

----------------------------------------------------------------------------
\* the request id Receive's switch saw for request d (any garbage byte when d is empty)
IdsSeen(d) == IF Len(d) > 0 THEN {d[1]} ELSE GarbageBytes

\* C13 as claimed: every byte of the request that Receive and its handlers read
\* lies inside the delivered sequence, and every calibration byte copied lies
\* inside the blob, for requests of any length.
C13_ReadsInBounds ==
    lastOp.op = "Receive" =>
        /\ \A id \in IdsSeen(lastOp.data) :
               IndicesRead(id, lastOp.data) \subseteq 0..(Len(lastOp.data) - 1)
        /\ ~fault

\* C14: Connect sends nothing and changes nothing: no tick armed, cancelled or
\* rescheduled, hid_period and the reload flag unchanged.
C14_ConnectNoEffect ==
    [][ lastOp'.op = "Connect" =>
            /\ out' = << >>
            /\ UNCHANGED <<now, event_queue, hid_period, is_device_reload_pending,
                           handles, calibration_data, alive, pc>> ]_vars

\* C14 witness: Connect after a Disconnect of an armed device left nothing pending
C14_Witness ==
    /\ lastOp.op = "Connect"
    /\ lastOp.pending = 0
    /\ hid_period = 1
    /\ exchanged
    /\ event_queue = << >>

\* C16: while hid_period is unset (no valid status request yet) no tick is pending
\* or running, no tick has run and no status response is sent.
C16_IdleUntilConfigured ==
    hid_period = Unset =>
        /\ event_queue = << >>
        /\ pc = "idle"
        /\ ~exchanged
        /\ ~HasStatusPacket(out)

\* C16 witness: a calibration read answered at time 2 * Quantum, still unconfigured
C16_Witness ==
    /\ hid_period = Unset
    /\ lastOp.op = "Receive"
    /\ lastOp.data = <<2, 0, 16, 0, 16, 0>>
    /\ Len(out) = 1
    /\ unserved = 1
    /\ now = 2 * Quantum

\* C17: ReloadInputDevices only sets the flag; the flag is cleared only by a tick's
\* exchange; the handles are replaced only by the reload step at the start of a
\* tick, all three together, and not while or after that tick samples.
C17_ReloadDeferred ==
    [][ /\ (lastOp'.op = "ReloadInputDevices" =>
                /\ is_device_reload_pending'
                /\ out' = << >>
                /\ UNCHANGED <<handles, event_queue, hid_period, pc, now>>)
        /\ (is_device_reload_pending /\ ~is_device_reload_pending' =>
                lastOp'.op = "SendHIDStatus_Exchange")
        /\ (handles' # handles =>
                /\ lastOp'.op = "SendHIDStatus_Load"
                /\ out' = << >>
                /\ pc' = "sample")
        /\ (handles'.zl = handles'.zr /\ handles'.zr = handles'.c_stick)
        /\ (lastOp'.op = "SendHIDStatus_Send" => handles' = handles) ]_vars

\* C17 witness: a reload requested while the device was not configured is still
\* pending when the first tick starts, and that tick is about to reload
C17_Witness ==
    /\ lastOp.op = "SendHIDStatus_Exchange"
    /\ pc = "load"
    /\ unserved = 0
    /\ handles.zl = 0
    /\ hid_period = 0
    /\ now = 0

\* C18 as claimed: the delay a tick passes to ScheduleEvent is never negative, i.e.
\* the deadline it schedules is never earlier than its firing time.
C18_DelayNeverNegative ==
    TickSent => \A i \in 1..Len(event_queue) : event_queue[i] >= now

\* C19: Receive sends at most one packet: none for a valid status request, exactly
\* one calibration response for a valid in-range read, never a status response;
\* outside Receive only a tick's sending step sends.
C19_AtMostOnePacket ==
    /\ Len(out) <= 1
    /\ (lastOp.op = "Receive" =>
            /\ ~HasStatusPacket(out)
            /\ (Len(lastOp.data) > 0 /\ lastOp.data[1] # RequestID_ReadCalibrationData
                    => out = << >>)
            /\ (IsCalibrationRead(lastOp.data) =>
                    Len(out) = 1 /\ out[1][1] = ResponseID_ReadCalibrationData))
    /\ (out # << >> => lastOp.op \in {"Receive", "SendHIDStatus_Send"})

\* C19 witness: a status request with period 0 has returned; its tick is already
\* due but nothing has been sent
C19_Witness ==
    /\ lastOp.op = "Receive"
    /\ lastOp.data = <<1, 0, 0>>
    /\ event_queue = <<now>>
    /\ now = Quantum
    /\ out = << >>

\* what a request with first byte 0x02 is answered with, from its bytes alone
CalibrationAnswer(d) ==
    IF IsCalibrationRead(d)
    THEN << <<17, d[3], d[4], d[5], d[6]>>
              \o SubSeq(CalibrationBlob, Floor16(RawOffset(d)) + 1,
                        Floor16(RawOffset(d)) + Floor16(RawSize(d))) >>
    ELSE << >>

\* C20: the calibration data is always the 64 bytes set at construction, and what
\* a calibration request is answered with depends on its bytes alone.
C20_CalibrationImmutable ==
    /\ Len(calibration_data) = 64
    /\ calibration_data = CalibrationBlob
    /\ (lastOp.op = "Receive" /\ Len(lastOp.data) > 0
            /\ lastOp.data[1] = RequestID_ReadCalibrationData
          => out = CalibrationAnswer(lastOp.data))

\* C20 witness: the whole blob read back on an armed device after a tick has run
\* and a reload is pending
C20_Witness ==
    /\ lastOp.op = "Receive"
    /\ lastOp.data = <<2, 0, 0, 0, 64, 0>>
    /\ out = << <<17, 0, 0, 64, 0>> \o CalibrationBlob >>
    /\ exchanged
    /\ hid_period = 2
    /\ unserved = 1
    /\ now = 3 * Quantum

----------------------------------------------------------------------------
\* a status request has been accepted and no Disconnect has followed
Armed == nominal # << >>

\* the last step was an accepted status request
Rearmed == lastOp.op = "Receive" /\ IsStatusRequest(lastOp.data)

\* C15 as claimed: with no Disconnect, an armed device sends status responses
\* infinitely often.
C15_ArmedSendsForever == <>[]Armed => []<>HasStatusPacket(out)

\* C15 amended: every tick sends exactly one status response and leaves exactly one
\* tick pending, the device stays armed until Disconnect, and with no Disconnect and
\* no further status request from some point on, status responses are sent
\* infinitely often.
C15_ArmedKeepsSending ==
    /\ [][ lastOp'.op = "SendHIDStatus_Send" =>
               /\ Len(out') = 1
               /\ out'[1][1] = ResponseID_ReadHIDStatus
               /\ Len(event_queue') = 1 ]_vars
    /\ [][ Armed /\ ~Armed' => lastOp'.op \in {"Disconnect", "~ExtraHID"} ]_vars
    /\ [](Armed /\ pc = "idle" => Len(event_queue) = 1)
    /\ (<>[]Armed /\ <>[]~Rearmed => []<>HasStatusPacket(out))

\* C15 witness: a tick of an armed device with period 1 ms, fired one step late,
\* has sent its packet and left its successor pending, due now
C15_Witness ==
    /\ TickSent
    /\ Armed
    /\ hid_period = 1
    /\ exchanged
    /\ event_queue = <<now>>
    /\ HasStatusPacket(out)

====
